---------------------------- MODULE Spec2Model ----------------------------
(***************************************************************************)
(* A model of simplified-dashboard.py: the synthetic series generator      *)
(* get_sample_data, the risk classifier (risk_analysis, generate_outlook), *)
(* the memoized country lookup get_countries and the render pass           *)
(* run_dashboard.                                                          *)
(*                                                                         *)
(* Numbers.  The program computes in binary floating point.  The model     *)
(* computes in decimal fixed point: a value v is the integer v * Scale,    *)
(* and every product is rounded down to a multiple of 1/Scale, as a float  *)
(* product is rounded to the nearest representable value.                  *)
(*                                                                         *)
(* Strings.  An indicator name is the sequence of its characters, so that  *)
(* `"GDP" in indicator` is a substring search and indicator.lower() is a   *)
(* character map.  Python indexes from 0 and TLA+ sequences from 1: the    *)
(* code's values[i] is the model's values[i + 1].                          *)
(***************************************************************************)
EXTENDS Integers, Sequences, FiniteSets, TLC

VARIABLES
    pc,                    \* position of the operation of the specification
    \* get_sample_data: its arguments, locals and return value
    indicator, start_year, end_year, years, values, idx, result,
    raw,                   \* history: values as generated, before smoothing
    zs,                    \* history: the standard normal draws consumed
    \* risk score and classification
    risk_score, risk_label, risk_class, outlook,
    \* st.cache_data entry of get_countries, the clock, the call's effects
    now, cache, fetched, errorShown, countries_df,
    response,              \* history: the HTTP response of the call just made
    lastFetchAt,           \* history: when the last HTTP request was made
    lastFetched,           \* history: what the call that made it returned
    \* run_dashboard: widget values and what the pass rendered
    selected_region, selected_country_name, selected_country_code,
    selected_indicators, indicators_data, warning, metrics, charts

genVars == <<indicator, years, values, idx, result, raw, zs>>
yearVars == <<start_year, end_year>>
riskVars == <<risk_score, risk_label, risk_class, outlook>>
cacheVars == <<now, cache, fetched, errorShown, countries_df, response,
               lastFetchAt, lastFetched>>
widgetVars == <<selected_region, selected_country_name,
                selected_country_code, selected_indicators>>
outVars == <<indicators_data, warning, metrics, charts>>
vars == <<pc, genVars, yearVars, riskVars, cacheVars, widgetVars, outVars>>

\* Python's None, and the value of a local not yet assigned.
None == "None"

-----------------------------------------------------------------------------
(* Bounds of the model.                                                    *)

\* get_sample_data is explored for year ranges of at most MaxSpan + 1 years.
MaxSpan == 3
\* The classifier is explored for scores up to MaxScore (and down to -2).
MaxScore == 12
\* A country response lists at most MaxEntries entries.
MaxEntries == 2
\* The clock runs for MaxPeriods lifetimes of a cache entry.
MaxPeriods == 2
\* A render pass draws from one of NumStreams random streams.
NumStreams == 2

-----------------------------------------------------------------------------
(* Fixed-point numbers.                                                    *)

Scale == 1000 * 1000

\* The float product of a decimal constant num/den and x.
Times(num, den, x) == (num * x) \div den

\* k as a fixed-point number.
Whole(k) == k * Scale

Max(a, b) == IF a >= b THEN a ELSE b

-----------------------------------------------------------------------------
(* Strings as character sequences.                                         *)

\* "GDP (current US$)"
NameGDP ==
    << "G", "D", "P", " ", "(", "c", "u", "r", "r", "e", "n", "t",
       " ", "U", "S", "$", ")" >>

\* "GDP growth (annual %)"
NameGDPGrowth ==
    << "G", "D", "P", " ", "g", "r", "o", "w", "t", "h", " ", "(",
       "a", "n", "n", "u", "a", "l", " ", "%", ")" >>

\* "Inflation, consumer prices (annual %)"
NameInflation ==
    << "I", "n", "f", "l", "a", "t", "i", "o", "n", ",", " ", "c",
       "o", "n", "s", "u", "m", "e", "r", " ", "p", "r", "i", "c",
       "e", "s", " ", "(", "a", "n", "n", "u", "a", "l", " ", "%",
       ")" >>

\* "gdp per capita"
NameLowerGdp ==
    << "g", "d", "p", " ", "p", "e", "r", " ", "c", "a", "p", "i",
       "t", "a" >>

\* "inflation rate"
NameLowerInflation ==
    << "i", "n", "f", "l", "a", "t", "i", "o", "n", " ", "r", "a",
       "t", "e" >>

\* "Export growth"
NameGrowthOnly ==
    << "E", "x", "p", "o", "r", "t", " ", "g", "r", "o", "w", "t",
       "h" >>

\* "Unemployment"
NameUnrecognised ==
    << "U", "n", "e", "m", "p", "l", "o", "y", "m", "e", "n", "t" >>

\* "Inflation, GDP deflator"
NameGDPDeflator ==
    << "I", "n", "f", "l", "a", "t", "i", "o", "n", ",", " ", "G",
       "D", "P", " ", "d", "e", "f", "l", "a", "t", "o", "r" >>

\* "GDP Growth"
NameGDPCapitalGrowth ==
    << "G", "D", "P", " ", "G", "r", "o", "w", "t", "h" >>

\* "Inflation vs GDP growth"
NameInflationGDPGrowth ==
    << "I", "n", "f", "l", "a", "t", "i", "o", "n", " ", "v", "s",
       " ", "G", "D", "P", " ", "g", "r", "o", "w", "t", "h" >>

StrGDP == << "G", "D", "P" >>
StrGrowth == << "g", "r", "o", "w", "t", "h" >>
StrInflation == << "I", "n", "f", "l", "a", "t", "i", "o", "n" >>
StrLowerGdp == << "g", "d", "p" >>
StrLowerInflation == << "i", "n", "f", "l", "a", "t", "i", "o", "n" >>

\* Python's `sub in s` for strings.
Contains(sub, s) ==
    \E k \in 0..(Len(s) - Len(sub)) : SubSeq(s, k + 1, k + Len(sub)) = sub

UpperChars == << "A", "B", "C", "D", "E", "F", "G", "H", "I", "J", "K", "L", "M",
                 "N", "O", "P", "Q", "R", "S", "T", "U", "V", "W", "X", "Y", "Z" >>
LowerChars == << "a", "b", "c", "d", "e", "f", "g", "h", "i", "j", "k", "l", "m",
                 "n", "o", "p", "q", "r", "s", "t", "u", "v", "w", "x", "y", "z" >>

UpperToLower ==
    [c \in { UpperChars[k] : k \in 1..Len(UpperChars) } |->
        LowerChars[CHOOSE k \in 1..Len(UpperChars) : UpperChars[k] = c]]

LowerChar(c) == IF c \in DOMAIN UpperToLower THEN UpperToLower[c] ELSE c

\* Python's s.lower().
Lower(s) == [k \in 1..Len(s) |-> LowerChar(s[k])]

\* The names get_indicators returns, in its order.
IndicatorCatalog == << NameGDP, NameGDPGrowth, NameInflation >>

get_indicators == [name |-> IndicatorCatalog]

\* The names get_sample_data is explored with: the catalog and names that
\* differ from it in case or in the substrings they contain.
IndicatorNames ==
    { NameGDP, NameGDPGrowth, NameInflation, NameLowerGdp, NameLowerInflation,
      NameGrowthOnly, NameUnrecognised, NameGDPDeflator, NameGDPCapitalGrowth,
      NameInflationGDPGrowth }

-----------------------------------------------------------------------------
(* get_sample_data.                                                        *)

\* list(range(a, b))
RECURSIVE Range(_, _)
Range(a, b) == IF a >= b THEN << >> ELSE << a >> \o Range(a + 1, b)

\* The values the standard normal generator behind np.random.normal yields.
ZDraws == { -((3 * Scale) \div 2), 0, Scale + 234567 }

\* np.random.normal(loc, scale) for the draw z: loc + scale * z, with loc and
\* scale in tenths.
Normal(locTenths, scaleTenths, z) ==
    Times(locTenths, 10, Scale) + Times(scaleTenths, 10, z)

\* A variant of GrowthFactor: simple instead of compound growth, 1 + 0.03 * i.
SimpleGrowthFactor(i) == Scale + Times(3, 100, Whole(i))

\* (1 + 0.03) ** i
RECURSIVE GrowthFactor(_)
GrowthFactor(i) ==
    IF i = 0 THEN Scale ELSE Times(103, 100, GrowthFactor(i - 1))

\* A variant of GenerateValues: the "Inflation" test comes first.
InflationFirstGenerateValues(ind, n, z) ==
    IF Contains(StrInflation, ind)
    THEN [values |-> [k \in 1..n |-> Normal(25, 8, z[k])], drawn |-> n]
    ELSE IF Contains(StrGDP, ind) /\ Contains(StrGrowth, ind)
    THEN [values |-> [k \in 1..n |-> Normal(30, 10, z[k])], drawn |-> n]
    ELSE LET base == IF Contains(StrGDP, ind) THEN 1 ELSE 200
         IN  [values |-> [k \in 1..n |-> base * GrowthFactor(k - 1)],
              drawn |-> 0]

\* Lines 89-98: the raw values, and how many draws the branch consumed.  z
\* holds the draws the generator would yield, one per year.
GenerateValues(ind, n, z) ==
    IF Contains(StrGDP, ind) /\ Contains(StrGrowth, ind)
    THEN [values |-> [k \in 1..n |-> Normal(30, 10, z[k])], drawn |-> n]
    ELSE IF Contains(StrInflation, ind)
    THEN [values |-> [k \in 1..n |-> Normal(25, 8, z[k])], drawn |-> n]
    ELSE LET base == IF Contains(StrGDP, ind) THEN 1 ELSE 200
         IN  [values |-> [k \in 1..n |-> base * GrowthFactor(k - 1)],
              drawn |-> 0]

\* A variant of SmoothAt: the previous value is taken as generated, not as
\* smoothed.
UnsmoothedPreviousSmoothAt(vals, k) ==
    [vals EXCEPT ![k] = Times(7, 10, raw[k - 1]) + Times(3, 10, vals[k])]

\* Line 102, for the code's index i = k - 1.
SmoothAt(vals, k) ==
    [vals EXCEPT ![k] = Times(7, 10, vals[k - 1]) + Times(3, 10, vals[k])]

\* Lines 101-102: the whole loop, from the code's index k - 1 on.
RECURSIVE SmoothLoop(_, _)
SmoothLoop(vals, k) ==
    IF k > Len(vals) THEN vals ELSE SmoothLoop(SmoothAt(vals, k), k + 1)

\* Lines 104-107: pd.DataFrame of two columns, which raises ValueError when
\* the columns differ in length.
SeriesFrame(ys, vals) ==
    IF Len(ys) = Len(vals)
    THEN [year |-> ys, value |-> vals]
    ELSE [error |-> "ValueError"]

\* A variant of YearList: the end year is left out, range(s, e).
ExclusiveYearList(s, e) == Range(s, e)

\* The years of the call: line 86.
YearList(s, e) == Range(s, e + 1)

\* The whole call, for the draws z.
get_sample_data(ind, s, e, z) ==
    LET ys == YearList(s, e)
        g == GenerateValues(ind, Len(ys), z)
    IN  SeriesFrame(ys, SmoothLoop(g.values, 2))

-----------------------------------------------------------------------------
(* Risk classifier.                                                        *)

OutlookHigh == "Economic conditions face significant headwinds. Policy intervention may be needed to stabilize growth and inflation."
OutlookMedium == "Economic conditions show mixed signals with moderate risks. Careful monitoring recommended."
OutlookLow == "Economic conditions appear favorable with positive outlook for sustained growth and stability."

risk_analysis(score) ==
    IF score >= Whole(7) THEN << "High Risk", "risk-high" >>
    ELSE IF score >= Whole(4) THEN << "Medium Risk", "risk-medium" >>
    ELSE << "Low Risk", "risk-low" >>

\* A variant of generate_outlook: the upper threshold is exclusive.
StrictOutlook(score) ==
    IF score > Whole(7) THEN OutlookHigh
    ELSE IF score >= Whole(4) THEN OutlookMedium
    ELSE OutlookLow

generate_outlook(score) ==
    IF score >= Whole(7) THEN OutlookHigh
    ELSE IF score >= Whole(4) THEN OutlookMedium
    ELSE OutlookLow

\* The scores the classifier is explored with: quarters from -2 to MaxScore,
\* and the nearest representable neighbours of both thresholds.
Scores ==
    { Times(k, 4, Scale) : k \in (-8)..(4 * MaxScore) }
        \cup { Whole(4) - 1, Whole(4) + 1, Whole(7) - 1, Whole(7) + 1 }

-----------------------------------------------------------------------------
(* The state before any operation has run, by group of variables.          *)

GenInit ==
    /\ indicator = None /\ years = << >> /\ values = << >> /\ idx = 0
    /\ result = None /\ raw = << >> /\ zs = << >>

YearInit == start_year = None /\ end_year = None

RiskInit ==
    /\ risk_score = None /\ risk_label = None /\ risk_class = None
    /\ outlook = None

CacheInit ==
    /\ now = 0 /\ cache = {} /\ fetched = FALSE /\ errorShown = FALSE
    /\ countries_df = None /\ response = None
    /\ lastFetchAt = -1 /\ lastFetched = None

WidgetInit ==
    /\ selected_region = None /\ selected_country_name = None
    /\ selected_country_code = None /\ selected_indicators = << >>

OutInit ==
    /\ indicators_data = << >> /\ warning = FALSE /\ metrics = << >>
    /\ charts = << >>

-----------------------------------------------------------------------------
(* SpecGen: one call get_sample_data(indicator, start_year, end_year), for *)
(* every name of IndicatorNames and every pair of years around the first   *)
(* slider year, end_year < start_year included.                            *)

FirstYear == 2010

GenCallInit ==
    /\ pc = "call"
    /\ indicator \in IndicatorNames
    /\ start_year \in FirstYear..(FirstYear + MaxSpan)
    /\ end_year \in (FirstYear - 1)..(FirstYear + MaxSpan)
    /\ years = << >> /\ values = << >> /\ idx = 0
    /\ result = None /\ raw = << >> /\ zs = << >>
    /\ RiskInit /\ CacheInit /\ WidgetInit /\ OutInit

\* Lines 86-98: the year list and the raw values.
Generate ==
    /\ pc = "call"
    /\ years' = YearList(start_year, end_year)
    /\ \E z \in [1..Len(years') -> ZDraws] :
          LET g == GenerateValues(indicator, Len(years'), z)
          IN  /\ values' = g.values
              /\ raw' = g.values
              /\ zs' = SubSeq(z, 1, g.drawn)
    /\ idx' = 2
    /\ pc' = "smooth"
    /\ UNCHANGED <<indicator, result, yearVars, riskVars, cacheVars,
                   widgetVars, outVars>>

\* Lines 101-102: one iteration of the loop.
SmoothStep ==
    /\ pc = "smooth"
    /\ idx <= Len(values)
    /\ values' = SmoothAt(values, idx)
    /\ idx' = idx + 1
    /\ UNCHANGED <<pc, indicator, years, result, raw, zs, yearVars, riskVars,
                   cacheVars, widgetVars, outVars>>

\* Lines 104-107: the loop is over; the frame is built and returned.
Return ==
    /\ pc = "smooth"
    /\ idx > Len(values)
    /\ result' = SeriesFrame(years, values)
    /\ pc' = "returned"
    /\ UNCHANGED <<indicator, years, values, idx, raw, zs, yearVars, riskVars,
                   cacheVars, widgetVars, outVars>>

GenNext == Generate \/ SmoothStep \/ Return

SpecGen == GenCallInit /\ [][GenNext]_vars

-----------------------------------------------------------------------------
(* SpecRisk: the classification of one score, for every score of Scores,   *)
(* in the order run_dashboard calls the two functions (lines 198, 231).    *)

RiskCallInit ==
    /\ pc = "classify"
    /\ risk_score \in Scores
    /\ risk_label = None /\ risk_class = None /\ outlook = None
    /\ GenInit /\ YearInit /\ CacheInit /\ WidgetInit /\ OutInit

RiskAnalysis ==
    /\ pc = "classify"
    /\ risk_label' = risk_analysis(risk_score)[1]
    /\ risk_class' = risk_analysis(risk_score)[2]
    /\ pc' = "outlook"
    /\ UNCHANGED <<risk_score, outlook, genVars, yearVars, cacheVars,
                   widgetVars, outVars>>

GenerateOutlook ==
    /\ pc = "outlook"
    /\ outlook' = generate_outlook(risk_score)
    /\ pc' = "classified"
    /\ UNCHANGED <<risk_score, risk_label, risk_class, genVars, yearVars,
                   cacheVars, widgetVars, outVars>>

RiskNext == RiskAnalysis \/ GenerateOutlook

SpecRisk == RiskCallInit /\ [][RiskNext]_vars

-----------------------------------------------------------------------------
(* get_countries and its st.cache_data(ttl=3600) entry.                    *)

\* A key the JSON object does not have.
Missing == "<missing>"

JsonObject(v) == [kind |-> "object", value |-> v]

\* The entries a response is built from: a country, an aggregate, and entries
\* that lack part of {id, name, region: {value}}.
EntryBrazil ==
    [id |-> "BRA", name |-> "Brazil",
     region |-> JsonObject("Latin America & Caribbean")]
EntryWorld ==
    [id |-> "WLD", name |-> "World", region |-> JsonObject("Aggregates")]
EntryNoRegion ==
    [id |-> "XKX", name |-> "Kosovo",
     region |-> [kind |-> "missing", value |-> Missing]]
EntryRegionString ==
    [id |-> "CHI", name |-> "Channel Islands",
     region |-> [kind |-> "string", value |-> Missing]]
EntryNoId ==
    [id |-> Missing, name |-> "Nowhere", region |-> JsonObject("South Asia")]
EntryNoName ==
    [id |-> "NWH", name |-> Missing, region |-> JsonObject("South Asia")]
EntryAggregateNoId ==
    [id |-> Missing, name |-> Missing, region |-> JsonObject("Aggregates")]

Entries ==
    { EntryBrazil, EntryWorld, EntryNoRegion, EntryRegionString, EntryNoId,
      EntryNoName, EntryAggregateNoId }

EntryLists == UNION { [1..n -> Entries] : n \in 0..MaxEntries }

\* What requests.get and response.json() can do: raise, or yield a JSON
\* document that is an object, a list with the metadata only, a list whose
\* second element is null, or [metadata, [entry, ...]].
Responses ==
    { [kind |-> k, shape |-> "none", entries |-> << >>] :
          k \in {"request raises", "json raises"} }
    \cup { [kind |-> "json", shape |-> sh, entries |-> << >>] :
              sh \in {"object", "short", "null"} }
    \cup { [kind |-> "json", shape |-> "list", entries |-> es] :
              es \in EntryLists }

Country(id, name, region) == [id |-> id, name |-> name, region |-> region]

\* Lines 65-71.
FallbackCountries ==
    << Country("USA", "United States", "North America"),
       Country("GBR", "United Kingdom", "Europe & Central Asia"),
       Country("JPN", "Japan", "East Asia & Pacific"),
       Country("DEU", "Germany", "Europe & Central Asia"),
       Country("IND", "India", "South Asia") >>

\* pd.DataFrame of a list of records: no record, no column.
DataFrame(rows) ==
    [columns |-> IF rows = << >> THEN {} ELSE {"id", "name", "region"},
     rows |-> rows]

\* Lines 52-59 from entry k on: the list built, and whether an entry raised
\* (KeyError or TypeError) before the loop ended.
RECURSIVE ScanEntries(_, _, _)
ScanEntries(es, k, countries) ==
    IF k > Len(es) THEN [raised |-> FALSE, countries |-> countries]
    ELSE LET country == es[k] IN
         IF country.region.kind # "object"
         THEN [raised |-> TRUE, countries |-> countries]
         ELSE IF country.region.value # "Aggregates"
         THEN IF country.id = Missing \/ country.name = Missing
              THEN [raised |-> TRUE, countries |-> countries]
              ELSE ScanEntries(es, k + 1,
                       Append(countries,
                              Country(country.id, country.name,
                                      country.region.value)))
         ELSE ScanEntries(es, k + 1, countries)

\* Lines 47-59: the try block up to the return.
TryFetch(resp) ==
    IF resp.kind # "json" \/ resp.shape # "list"
    THEN [raised |-> TRUE, countries |-> << >>]
    ELSE ScanEntries(resp.entries, 1, << >>)

\* A variant of fetch_countries: the handler returns what the loop had built.
PartialOnError(resp) ==
    [frame |-> DataFrame(TryFetch(resp).countries),
     error |-> TryFetch(resp).raised]

\* Lines 46-71: the body of get_countries for the response resp: the frame
\* returned, and whether st.error was called.
fetch_countries(resp) ==
    IF TryFetch(resp).raised
    THEN [frame |-> DataFrame(FallbackCountries), error |-> TRUE]
    ELSE [frame |-> DataFrame(TryFetch(resp).countries), error |-> FALSE]

\* Line 43.
TTL == 3600

\* A variant of CacheEntry: a result that reported an error is not stored.
SkipErrorsCacheEntry(r, t) ==
    IF r.error THEN {}
    ELSE {[value |-> r.frame, error |-> r.error, expires |-> t + TTL]}

\* Line 43: what st.cache_data stores for a call that returned r at time t.
CacheEntry(r, t) ==
    {[value |-> r.frame, error |-> r.error, expires |-> t + TTL]}

\* Line 43: the entries st.cache_data still serves at time t.
LiveEntries(t) == { e \in cache : t < e.expires }

\* Line 142 (and 43-71): the memoized call.  A live entry is returned with
\* its st.error replayed; otherwise the body runs and its result is stored.
GetCountries ==
    /\ pc = "start"
    /\ \/ /\ LiveEntries(now) # {}
          /\ \E e \in LiveEntries(now) :
                /\ countries_df' = e.value
                /\ errorShown' = e.error
          /\ fetched' = FALSE
          /\ response' = None
          /\ UNCHANGED <<cache, lastFetchAt, lastFetched>>
       \/ /\ LiveEntries(now) = {}
          /\ \E resp \in Responses :
                /\ response' = resp
                /\ countries_df' = fetch_countries(resp).frame
                /\ errorShown' = fetch_countries(resp).error
                /\ cache' = CacheEntry(fetch_countries(resp), now)
          /\ fetched' = TRUE
          /\ lastFetchAt' = now
          /\ lastFetched' = countries_df'
    /\ pc' = "region"
    /\ UNCHANGED <<now, genVars, yearVars, riskVars, widgetVars, outVars>>

\* The instants the clock is observed at: around every multiple of TTL.
Instants ==
    { k * TTL + d : k \in 0..MaxPeriods, d \in {-1, 0, 1} } \cap Nat

\* Time passes between two calls.
Tick ==
    /\ pc = "start"
    /\ \E t \in Instants : t > now /\ now' = t
    /\ UNCHANGED <<pc, cache, fetched, errorShown, countries_df, response,
                   lastFetchAt, lastFetched, genVars, yearVars, riskVars,
                   widgetVars, outVars>>

\* The caller is done with the frame; the next render pass calls again.
CallAgain ==
    /\ pc = "region"
    /\ pc' = "start"
    /\ countries_df' = None /\ response' = None
    /\ fetched' = FALSE /\ errorShown' = FALSE
    /\ UNCHANGED <<now, cache, lastFetchAt, lastFetched, genVars, yearVars,
                   riskVars, widgetVars, outVars>>

Init ==
    /\ pc = "start"
    /\ GenInit /\ YearInit /\ RiskInit /\ CacheInit /\ WidgetInit /\ OutInit

CacheNext == GetCountries \/ Tick \/ CallAgain

\* SpecCache: calls of get_countries as time passes.
SpecCache == Init /\ [][CacheNext]_vars

-----------------------------------------------------------------------------
(* run_dashboard: one action per block of the render pass.                 *)

RowSet(df) == { df.rows[k] : k \in 1..Len(df.rows) }

\* Lines 149-152.
FilterByRegion(df, region) ==
    IF region # "All Regions"
    THEN SelectSeq(df.rows, LAMBDA row : row.region = region)
    ELSE df.rows

\* Lines 162-163: the id of the first row with the selected name.
CountryCode(rows, name) ==
    LET matching == SelectSeq(rows, LAMBDA row : row.name = name)
    IN  IF matching # << >> THEN matching[1].id ELSE None

\* Lines 145-146.  countries_df['region'] raises KeyError on a frame without
\* that column; the selectbox yields any of its options.
SelectRegion ==
    /\ pc = "region"
    /\ \/ /\ "region" \notin countries_df.columns
          /\ pc' = "crashed"
          /\ UNCHANGED selected_region
       \/ /\ "region" \in countries_df.columns
          /\ \E r \in {"All Regions"}
                      \cup { row.region : row \in RowSet(countries_df) } :
                selected_region' = r
          /\ pc' = "country"
    /\ response' = None /\ fetched' = FALSE
    /\ UNCHANGED <<now, cache, errorShown, countries_df, lastFetchAt,
                   lastFetched, selected_country_name, selected_country_code,
                   selected_indicators, genVars, yearVars, riskVars, outVars>>

\* Lines 149-163.  A selectbox without options yields None.
SelectCountry ==
    /\ pc = "country"
    /\ LET filtered == FilterByRegion(countries_df, selected_region)
           options == { filtered[k].name : k \in 1..Len(filtered) }
       IN  /\ \E name \in (IF options = {} THEN {None} ELSE options) :
                 /\ selected_country_name' = name
                 /\ selected_country_code' = CountryCode(filtered, name)
    /\ pc' = "years"
    /\ UNCHANGED <<selected_region, selected_indicators, genVars, yearVars,
                   riskVars, cacheVars, outVars>>

\* Line 166: the bounds of the first slider.
LastStartYear == 2022
\* Line 167: the upper bound of the second slider.
LastYear == 2023

\* A variant of EndYearOptions: the second slider ignores the first.
IndependentEndYearOptions(s) == FirstYear..LastYear

\* Line 167: the positions of the second slider.
EndYearOptions(s) == (s + 1)..LastYear

\* Lines 166-167.
SelectYears ==
    /\ pc = "years"
    /\ \E s \in FirstYear..LastStartYear :
          /\ start_year' = s
          /\ \E e \in EndYearOptions(s) : end_year' = e
    /\ pc' = "indicators"
    /\ UNCHANGED <<genVars, riskVars, cacheVars, widgetVars, outVars>>

\* Every list of distinct names of the catalog, in the order selected.
Selections ==
    { sel \in UNION { [1..n -> 1..Len(IndicatorCatalog)] :
                          n \in 0..Len(IndicatorCatalog) } :
          \A a, b \in 1..Len(sel) : a # b => sel[a] # sel[b] }

\* Lines 170-175.
SelectIndicators ==
    /\ pc = "indicators"
    /\ \E sel \in Selections :
          selected_indicators' =
              [k \in 1..Len(sel) |-> get_indicators.name[sel[k]]]
    /\ pc' = "check"
    /\ UNCHANGED <<selected_region, selected_country_name,
                   selected_country_code, genVars, yearVars, riskVars,
                   cacheVars, outVars>>

\* Python's `not x` for None or a string.
Falsy(x) == x = None \/ x = ""

\* Lines 179-181.
CheckSelection ==
    /\ pc = "check"
    /\ IF Falsy(selected_country_code) \/ selected_indicators = << >>
       THEN warning' = TRUE /\ pc' = "warned"
       ELSE warning' = FALSE /\ pc' = "generate"
    /\ UNCHANGED <<indicators_data, metrics, charts, genVars, yearVars,
                   riskVars, cacheVars, widgetVars>>

\* The longest stream of draws a pass consumes: one per year and indicator.
StreamLength == Len(IndicatorCatalog) * (LastYear - FirstYear + 1)

\* The streams of standard normal draws np.random yields in a pass.
ZCycle == << -((3 * Scale) \div 2), 0, Scale + 234567 >>
ZStream(seed) ==
    [j \in 1..StreamLength |-> ZCycle[((j * j + seed * j + seed) % 3) + 1]]

\* Lines 186-191 from the k-th selected indicator on: the dict built, with
\* the draws taken from stream z after the first `used` ones.
RECURSIVE GenerateAll(_, _, _, _, _, _)
GenerateAll(sel, k, s, e, z, used) ==
    IF k > Len(sel) THEN << >>
    ELSE LET n == Len(YearList(s, e))
             mine == [j \in 1..n |-> z[used + j]]
             drawn == GenerateValues(sel[k], n, mine).drawn
         IN  << [indicator |-> sel[k],
                 data |-> get_sample_data(sel[k], s, e, mine)] >>
                 \o GenerateAll(sel, k + 1, s, e, z, used + drawn)

\* indicators_data[name]
DataOf(dict, name) ==
    (CHOOSE item \in { dict[k] : k \in 1..Len(dict) } :
         item.indicator = name).data

\* Lines 186-194.  time.sleep(0.5) is shorter than the clock's unit, a second.
GenerateData ==
    /\ pc = "generate"
    /\ \E seed \in 1..NumStreams :
          indicators_data' =
              GenerateAll(selected_indicators, 1, start_year, end_year,
                          ZStream(seed), 0)
    /\ pc' = "risk"
    /\ UNCHANGED <<warning, metrics, charts, genVars, yearVars, riskVars,
                   cacheVars, widgetVars>>

\* The values the uniform generator behind np.random.uniform yields, in [0, 1).
UDraws == { 0, Scale \div 2, Scale - 1 }

\* Line 112: np.random.uniform(2, 8) for the draw u; the argument is unused.
calculate_risk_score(data, u) == Whole(2) + (8 - 2) * u

\* Lines 197-198.
AssessRisk ==
    /\ pc = "risk"
    /\ \E u \in UDraws :
          /\ risk_score' = calculate_risk_score(indicators_data, u)
          /\ risk_label' = risk_analysis(risk_score')[1]
          /\ risk_class' = risk_analysis(risk_score')[2]
    /\ pc' = "metrics"
    /\ UNCHANGED <<outlook, genVars, yearVars, cacheVars, widgetVars,
                   outVars>>

\* f"{x:.2f}": x rounded to hundredths.
TwoDecimals(x) == (x + Scale \div 200) \div (Scale \div 100)

\* x / 1e12
PerTrillion(x) == (x \div (1000 * 1000)) \div (1000 * 1000)

\* Lines 209-217: the metric of one indicator; data.iloc[-1] raises
\* IndexError on an empty frame.
Metric(name, data) ==
    IF data.value = << >> THEN [label |-> name, format |-> "IndexError",
                                 shown |-> 0]
    ELSE LET latest_value == data.value[Len(data.value)] IN
         IF Contains(StrGrowth, Lower(name))
                \/ Contains(StrLowerInflation, Lower(name))
         THEN [label |-> name, format |-> "percent",
               shown |-> TwoDecimals(latest_value)]
         ELSE IF Contains(StrLowerGdp, Lower(name))
         THEN [label |-> name, format |-> "trillion",
               shown |-> TwoDecimals(PerTrillion(latest_value))]
         ELSE [label |-> name, format |-> "number",
               shown |-> TwoDecimals(latest_value)]

\* Lines 208-217: the metrics of the selected indicators.
KeyMetrics(sel, dict) ==
    [k \in 1..Len(sel) |-> Metric(sel[k], DataOf(dict, sel[k]))]

\* Lines 239-253: one chart per selected indicator.
Charts(sel, dict) ==
    [k \in 1..Len(sel) |->
        [indicator |-> sel[k], x |-> DataOf(dict, sel[k]).year,
         y |-> DataOf(dict, sel[k]).value]]

\* Lines 200-258: the three columns (key metrics, risk assessment, outlook)
\* and the charts.  An IndexError in the first column ends the pass.
Render ==
    /\ pc = "metrics"
    /\ IF \E k \in 1..Len(indicators_data) :
              indicators_data[k].data.value = << >>
       THEN pc' = "crashed" /\ UNCHANGED <<metrics, outlook, charts>>
       ELSE /\ metrics' = KeyMetrics(selected_indicators, indicators_data)
            /\ outlook' = generate_outlook(risk_score)
            /\ charts' = Charts(selected_indicators, indicators_data)
            /\ pc' = "done"
    /\ UNCHANGED <<indicators_data, warning, risk_score, risk_label,
                   risk_class, genVars, yearVars, cacheVars, widgetVars>>

\* The pass is over (returned, or ended by an uncaught exception); a widget
\* change starts the next one.  Only the cache outlives the pass.
Rerun ==
    /\ pc \in {"done", "warned", "crashed"}
    /\ pc' = "start"
    /\ countries_df' = None /\ response' = None
    /\ fetched' = FALSE /\ errorShown' = FALSE
    /\ start_year' = None /\ end_year' = None
    /\ risk_score' = None /\ risk_label' = None /\ risk_class' = None
    /\ outlook' = None
    /\ selected_region' = None /\ selected_country_name' = None
    /\ selected_country_code' = None /\ selected_indicators' = << >>
    /\ indicators_data' = << >> /\ warning' = FALSE /\ metrics' = << >>
    /\ charts' = << >>
    /\ UNCHANGED <<now, cache, lastFetchAt, lastFetched, genVars>>

Next ==
    \/ GetCountries \/ SelectRegion \/ SelectCountry \/ SelectYears
    \/ SelectIndicators \/ CheckSelection \/ GenerateData \/ AssessRisk
    \/ Render \/ Rerun

\* Spec: the render passes of a session within one lifetime of the cache
\* entry: the first pass fetches, the later ones are served from the cache.
\* The clock is advanced in SpecCache.
Spec == Init /\ [][Next]_vars

\* <<DASHBOARD>>
-----------------------------------------------------------------------------
(* Properties of get_sample_data, checked under SpecGen.                   *)

\* The call has reached the smoothing loop or has returned: raw and zs hold
\* what the generation branch produced.
Generated == pc \in {"smooth", "returned"}

Returned == pc = "returned"

IsFrame(r) == DOMAIN r = {"year", "value"}

\* base * 1.03^i in fixed point, stated apart from the model's GrowthFactor.
RECURSIVE Compound(_, _)
Compound(base, i) ==
    IF i = 0 THEN base * Scale ELSE base * ((Compound(1, i - 1) * 103) \div 100)

\* C1: get_sample_data returns max(0, end_year - start_year + 1) points; the
\* years are start_year, start_year + 1, ..., end_year, one value per year;
\* for end_year < start_year the series is empty and no error is raised.
C1_PointPerYear ==
    Returned =>
        /\ IsFrame(result)
        /\ Len(result.year) = Max(0, end_year - start_year + 1)
        /\ Len(result.value) = Len(result.year)
        /\ \A k \in 1..Len(result.year) : result.year[k] = start_year + k - 1
        /\ (end_year < start_year => result.year = << >>)

C1_Witness ==
    /\ Returned
    /\ end_year = start_year + 2
    /\ result.year = << start_year, start_year + 1, end_year >>
    /\ Len(result.value) = 3

\* C3: the returned values s satisfy s[0] = r[0] and s[i] = 0.7 * s[i-1] +
\* 0.3 * r[i] for the raw values r, s[i-1] being the smoothed predecessor;
\* the pass runs once, left to right (while it runs, the values before the
\* loop index are smoothed and the values from it on are still raw), and
\* index 0 is never changed.
C3_SmoothingRecurrence ==
    /\ Generated =>
          /\ Len(values) = Len(raw)
          /\ \A k \in 1..Len(values) :
                IF k = 1 \/ (pc = "smooth" /\ k >= idx)
                THEN values[k] = raw[k]
                ELSE values[k] =
                         Times(7, 10, values[k - 1]) + Times(3, 10, raw[k])
    /\ Returned => /\ IsFrame(result)
                   /\ result.value = values

C3_Witness ==
    /\ Returned
    /\ Len(raw) >= 3
    /\ zs # << >>
    /\ raw[1] # raw[2]
    /\ result.value[1] = raw[1]
    /\ result.value[2] = Times(7, 10, raw[1]) + Times(3, 10, raw[2])
    /\ result.value[3] = Times(7, 10, result.value[2]) + Times(3, 10, raw[3])
    /\ result.value[3] # Times(7, 10, raw[2]) + Times(3, 10, raw[3])

\* The raw values are the compounding curve base * 1.03^i and no draw was
\* consumed.
CompoundingCurve(base) ==
    /\ zs = << >>
    /\ \A k \in 1..Len(raw) : raw[k] = Compound(base, k - 1)

\* The raw values are one draw per year from a normal distribution with the
\* given location and scale (in tenths).
NormalDrawsAround(locTenths, scaleTenths) ==
    /\ Len(zs) = Len(raw)
    /\ \A k \in 1..Len(raw) :
          raw[k] = Times(locTenths, 10, Scale) + Times(scaleTenths, 10, zs[k])

\* C5 as stated: for every name containing "GDP" and not "growth", the first
\* value is 1.0, the raw value at index i is 1.03^i and no draw is involved.
C5_Original ==
    (Generated /\ Contains(StrGDP, indicator)
        /\ ~Contains(StrGrowth, indicator)) =>
        /\ CompoundingCurve(1)
        /\ (Returned /\ Len(raw) > 0 => result.value[1] = Whole(1))

\* C5 as amended: for every name containing "GDP" and neither "growth" nor
\* "Inflation", the first value is 1.0, the raw value at index i is 1.03^i
\* and no draw is involved.
C5_GDPLevelCurve ==
    (Generated /\ Contains(StrGDP, indicator)
        /\ ~Contains(StrGrowth, indicator)
        /\ ~Contains(StrInflation, indicator)) =>
        /\ CompoundingCurve(1)
        /\ (Returned /\ Len(raw) > 0 => result.value[1] = Whole(1))

C5_Witness ==
    /\ Returned
    /\ indicator = NameGDP
    /\ Len(raw) = 4
    /\ raw = << 1000000, 1030000, 1060900, 1092727 >>
    /\ result.value[1] = Whole(1)

\* C6: one generation rule per call, chosen by case-sensitive substrings in
\* this order: "GDP" and "growth" -> draws centred at 3.0; else "Inflation"
\* -> draws centred at 2.5; else base * 1.03^i with base 1.0 when the name
\* contains "GDP" and 200.0 when not.  Names with none of the substrings,
\* with "growth" but no "GDP", or in other letter case get base 200.0.
C6_BranchPriority ==
    Generated =>
        /\ IF Contains(StrGDP, indicator) /\ Contains(StrGrowth, indicator)
           THEN NormalDrawsAround(30, 10)
           ELSE IF Contains(StrInflation, indicator)
           THEN NormalDrawsAround(25, 8)
           ELSE IF Contains(StrGDP, indicator)
           THEN CompoundingCurve(1)
           ELSE CompoundingCurve(200)
        /\ (indicator \in {NameUnrecognised, NameGrowthOnly, NameLowerGdp,
                           NameLowerInflation} => CompoundingCurve(200))

C6_Witness ==
    /\ Returned
    /\ indicator = NameLowerInflation
    /\ Len(raw) >= 2
    /\ raw[1] = Whole(200)
    /\ raw[2] = Whole(206)
    /\ zs = << >>

-----------------------------------------------------------------------------
(* Properties of the risk classifier, checked under SpecRisk.              *)

Classified == pc = "classified"

Triple == << risk_label, risk_class, outlook >>

\* C2: for every score the triple (label, tag, outlook) comes from one band:
\* score >= 7 high, 4 <= score < 7 medium, score < 4 low; 7 and 4 belong to
\* the higher band.
C2_OneBand ==
    Classified =>
        /\ (risk_score >= Whole(7)
               => Triple = << "High Risk", "risk-high", OutlookHigh >>)
        /\ (risk_score >= Whole(4) /\ risk_score < Whole(7)
               => Triple = << "Medium Risk", "risk-medium", OutlookMedium >>)
        /\ (risk_score < Whole(4)
               => Triple = << "Low Risk", "risk-low", OutlookLow >>)

C2_Witness ==
    /\ Classified
    /\ risk_score = Whole(7)
    /\ Triple = << "High Risk", "risk-high", OutlookHigh >>

-----------------------------------------------------------------------------
(* Properties of get_countries, checked under SpecCache.                   *)

\* The call has just returned to line 142.
CountriesReturned == pc = "region"

\* The fixed list of the except branch, as the specification gives it.
FixedFiveCountries ==
    << [id |-> "USA", name |-> "United States", region |-> "North America"],
       [id |-> "GBR", name |-> "United Kingdom",
        region |-> "Europe & Central Asia"],
       [id |-> "JPN", name |-> "Japan", region |-> "East Asia & Pacific"],
       [id |-> "DEU", name |-> "Germany",
        region |-> "Europe & Central Asia"],
       [id |-> "IND", name |-> "India", region |-> "South Asia"] >>

\* An entry the loop cannot read: region is no object with a value, or the
\* entry is not an aggregate and lacks id or name.  (An aggregate is skipped
\* before its id and name are read.)
Unreadable(entry) ==
    \/ entry.region.kind # "object"
    \/ /\ entry.region.value # "Aggregates"
       /\ (entry.id = Missing \/ entry.name = Missing)

\* A failure during get_countries: the request raises, the body is no JSON,
\* or the JSON lacks the shape [metadata, [{id, name, region: {value}}, ...]]
\* where the code reads it.
FetchFails(resp) ==
    \/ resp.kind \in {"request raises", "json raises"}
    \/ resp.shape # "list"
    \/ \E k \in 1..Len(resp.entries) : Unreadable(resp.entries[k])

C9_TimeBoundedCache ==
    [][(pc = "start" /\ pc' = "region") =>
           IF lastFetchAt >= 0 /\ now < lastFetchAt + 3600
           THEN /\ ~fetched'
                /\ countries_df' = lastFetched
                /\ lastFetchAt' = lastFetchAt
           ELSE /\ fetched'
                /\ lastFetchAt' = now]_vars

C9_Witness ==
    /\ CountriesReturned
    /\ ~fetched
    /\ lastFetchAt = 1
    /\ now = 3600
    /\ errorShown
    /\ countries_df.rows = FixedFiveCountries

-----------------------------------------------------------------------------
(* Properties of run_dashboard, checked under Spec.                        *)

\* The sliders have been read.
YearsSelected ==
    pc \in {"indicators", "check", "warned", "generate", "risk", "metrics",
            "done"}

\* C8: the generator is only called with 2010 <= start_year <= 2022 and
\* start_year + 1 <= end_year <= 2023; every series in indicators_data has
\* between 2 and 14 points, and no pass ends on reading the last point of an
\* empty series.
C8_SliderRange ==
    /\ YearsSelected =>
          /\ 2010 <= start_year /\ start_year <= 2022
          /\ start_year + 1 <= end_year /\ end_year <= 2023
    /\ \A k \in 1..Len(indicators_data) :
          /\ Len(indicators_data[k].data.year) \in 2..14
          /\ Len(indicators_data[k].data.value) \in 2..14
    /\ pc = "crashed" => indicators_data = << >>

C8_Witness ==
    /\ pc = "done"
    /\ start_year = 2022
    /\ end_year = 2023
    /\ Len(indicators_data) = 3
    /\ Len(indicators_data[1].data.value) = 2
    /\ Len(metrics) = 3

\* The branch of get_sample_data a name selects, by the priority of C6.
BranchOf(name) ==
    IF Contains(StrGDP, name) /\ Contains(StrGrowth, name) THEN "random"
    ELSE IF Contains(StrInflation, name) THEN "random"
    ELSE IF Contains(StrGDP, name) THEN "compound 1.0"
    ELSE "compound 200.0"

FormatOf(branch) ==
    IF branch = "random" THEN "percent"
    ELSE IF branch = "compound 1.0" THEN "trillion"
    ELSE "number"

\* The last value of the series of the k-th selected indicator, in
\* hundredths, as a metric with two decimals shows it.
LastPointShown(k) ==
    LET series == indicators_data[k].data.value
    IN  (series[Len(series)] + Scale \div 200) \div (Scale \div 100)

\* C7: for every selectable indicator the format of its key metric agrees
\* with the branch get_sample_data used for it (percentage for the random
\* branches, trillions for compounding from 1.0, raw number for compounding
\* from 200.0), and the value shown is the last point of its series.
C7_Original ==
    pc = "done" =>
        \A k \in 1..Len(selected_indicators) :
            /\ indicators_data[k].indicator = selected_indicators[k]
            /\ metrics[k].label = selected_indicators[k]
            /\ metrics[k].format = FormatOf(BranchOf(selected_indicators[k]))
            /\ metrics[k].shown = LastPointShown(k)

\* C10 as stated: a pass ends after the warning, before any series or score,
\* or after one series, metric and chart per selected indicator and the
\* classified score; it never ends in an uncaught error.
C10_Original ==
    /\ pc # "crashed"
    /\ pc = "warned" =>
          /\ warning
          /\ Falsy(selected_country_code) \/ selected_indicators = << >>
          /\ indicators_data = << >>
          /\ risk_score = None
    /\ pc = "done" =>
          /\ ~warning
          /\ Len(indicators_data) = Len(selected_indicators)
          /\ Len(metrics) = Len(selected_indicators)
          /\ Len(charts) = Len(selected_indicators)
          /\ risk_label = risk_analysis(risk_score)[1]

=============================================================================
